---- MODULE Spec2Model ----
(***************************************************************************)
(* Model of the creative-orientation tools of coaia-gemini-mcp-tool:       *)
(* the create tool (gate, phase switch, tension block), the bias tool and  *)
(* its classifier, the chart tool and its validator, each for one request, *)
(* and a server with several requests in progress.  Texts are TLA+         *)
(* strings; the                                                            *)
(* JavaScript string operations the tools use (toLowerCase, includes,      *)
(* trim, length) are computed character by character.                      *)
(***************************************************************************)
EXTENDS Integers, Sequences, FiniteSets, TLC

VARIABLES
    tool,     \* which handler the request was sent to
    args,     \* the request's arguments
    pc,       \* position of the handler: "start", "awaitGenerate", "returned", "thrown"
    result,   \* what the handler returned or threw
    trace,    \* the components the handler has invoked so far, in order
    prompt,   \* the prompt handed to executeGeminiCLI, NoPrompt before the call
    clock,    \* the time `new Date()` reads, in hours since 1970-01-01T00:00Z
    chart,    \* the TensionChart the chart tool has constructed, NoChart before
    requests  \* the requests of a server handling several at once, one record each

vars == <<tool, args, pc, result, trace, prompt, clock, chart, requests>>

(***************************************************************************)
(* Bounds of the model.                                                    *)
(***************************************************************************)
MaxWords == 2
MaxRequests == 2

(***************************************************************************)
(* JavaScript strings.                                                     *)
(***************************************************************************)
UpperChars == "ABCDEFGHIJKLMNOPQRSTUVWXYZ"
LowerChars == "abcdefghijklmnopqrstuvwxyz"

CharAt(s, i) == SubSeq(s, i, i)

UpperSet == {CharAt(UpperChars, i) : i \in 1..Len(UpperChars)}
ToLower == [c \in UpperSet |->
               CharAt(LowerChars, CHOOSE i \in 1..Len(UpperChars) : CharAt(UpperChars, i) = c)]

\* String.prototype.toLowerCase on one ASCII character
LowerChar(c) == IF c \in UpperSet THEN ToLower[c] ELSE c

\* String.prototype.toLowerCase, halving the string to keep the recursion shallow
RECURSIVE toLowerCase(_)
toLowerCase(s) ==
    IF Len(s) = 0 THEN ""
    ELSE IF Len(s) = 1 THEN LowerChar(s)
    ELSE LET half == Len(s) \div 2
         IN  toLowerCase(SubSeq(s, 1, half)) \o toLowerCase(SubSeq(s, half + 1, Len(s)))

\* String.prototype.includes: w occurs in s as a contiguous substring
includes(s, w) ==
    \E i \in 1..(Len(s) - Len(w) + 1) : SubSeq(s, i, i + Len(w) - 1) = w

IsSpace(c) == c = " "

\* String.prototype.trim: the text between the first and the last non-blank character
trim(s) ==
    LET solid == {i \in 1..Len(s) : ~IsSpace(CharAt(s, i))}
    IN  IF solid = {} THEN ""
        ELSE SubSeq(s, CHOOSE i \in solid : \A j \in solid : i <= j,
                       CHOOSE i \in solid : \A j \in solid : i >= j)

\* An optional argument: << >> is undefined, <<s>> is the string s
Undefined == << >>
Some(s) == <<s>>
IsDefined(o) == Len(o) = 1

\* `o?.trim()` is truthy: o is defined and has a non-blank character
TrimTruthy(o) == IsDefined(o) /\ Len(trim(o[1])) > 0
\* `o` is truthy: defined and not the empty string
Truthy(o) == IsDefined(o) /\ Len(o[1]) > 0

\* words.filter(word => text.toLowerCase().includes(word)), given the lower-cased
\* text: the matches, in the word list's order
Detected(words, lower) == SelectSeq(words, LAMBDA w : includes(lower, w))

\* words.some(word => text.toLowerCase().includes(word)), given the lower-cased text
SomeWord(words, lower) == \E i \in 1..Len(words) : includes(lower, words[i])

Min(a, b) == IF a <= b THEN a ELSE b
Max(a, b) == IF a >= b THEN a ELSE b

\* The texts made of at most n phrases of vocab, joined by single blanks
RECURSIVE TextsUpTo(_, _)
TextsUpTo(vocab, n) ==
    IF n = 0 THEN {""}
    ELSE LET shorter == TextsUpTo(vocab, n - 1)
         IN  shorter \cup {IF s = "" THEN w ELSE s \o " " \o w : s \in shorter, w \in vocab}

(***************************************************************************)
(* JavaScript dates: `new Date(text)` for the ISO date-only form            *)
(* YYYY-MM-DD (midnight UTC); any other text of the input domain carries    *)
(* no number and parses to an invalid date.  Time values are in hours.      *)
(***************************************************************************)
Digits == "0123456789"
IsDigit(c) == \E i \in 1..Len(Digits) : CharAt(Digits, i) = c
DigitValue(c) == (CHOOSE i \in 1..Len(Digits) : CharAt(Digits, i) = c) - 1

RECURSIVE ParseDigits(_)
ParseDigits(s) ==
    IF Len(s) = 0 THEN 0
    ELSE ParseDigits(SubSeq(s, 1, Len(s) - 1)) * 10 + DigitValue(CharAt(s, Len(s)))

IsLeapYear(y) == (y % 4 = 0 /\ y % 100 # 0) \/ y % 400 = 0
DaysInMonth(y, m) ==
    IF m = 2 THEN (IF IsLeapYear(y) THEN 29 ELSE 28)
    ELSE IF m \in {4, 6, 9, 11} THEN 30 ELSE 31

\* Days from 1970-01-01 to the civil date y-m-d
DaysFromCivil(y, m, d) ==
    LET yy == IF m <= 2 THEN y - 1 ELSE y
        era == yy \div 400
        yoe == yy - era * 400
        mp == IF m > 2 THEN m - 3 ELSE m + 9
        doy == (153 * mp + 2) \div 5 + d - 1
        doe == yoe * 365 + yoe \div 4 - yoe \div 100 + doy
    IN  era * 146097 + doe - 719468

IsIsoDate(s) ==
    /\ Len(s) = 10
    /\ \A i \in {1, 2, 3, 4, 6, 7, 9, 10} : IsDigit(CharAt(s, i))
    /\ CharAt(s, 5) = "-" /\ CharAt(s, 8) = "-"
    /\ ParseDigits(SubSeq(s, 6, 7)) \in 1..12
    /\ ParseDigits(SubSeq(s, 9, 10)) \in
           1..DaysInMonth(ParseDigits(SubSeq(s, 1, 4)), ParseDigits(SubSeq(s, 6, 7)))

\* new Date(text): the time value, or an invalid date (getTime() is NaN)
NewDate(s) ==
    IF IsIsoDate(s)
    THEN [nan |-> FALSE,
          time |-> 24 * DaysFromCivil(ParseDigits(SubSeq(s, 1, 4)),
                                      ParseDigits(SubSeq(s, 6, 7)),
                                      ParseDigits(SubSeq(s, 9, 10)))]
    ELSE [nan |-> TRUE, time |-> 0]

\* The clock readings of the model: 2026-11-05 at midnight and at noon UTC
ClockStart == 24 * DaysFromCivil(2026, 11, 5)
Clocks == {ClockStart, ClockStart + 12}

(***************************************************************************)
(* Inputs.  A text is up to MaxWords phrases of a vocabulary joined by     *)
(* blanks; the vocabularies hold the dictionaries' triggers in lower,      *)
(* upper and mixed case, inside longer words, and phrases long enough to   *)
(* cross the scorers' length thresholds (30, 50, 100).                     *)
(***************************************************************************)
VisionVocab ==
    { "Establish a thriving community garden",
      "create a weekly market where every neighbour trades produce",
      "Build an unstoppable team",
      "fix the PROBLEM" }

RealityVocab ==
    { "We currently have an empty lot and no funding",
      "the site measures forty by sixty metres beside the old mill",
      "it is bad",
      "I will" }

VisionTexts == TextsUpTo(VisionVocab, MaxWords)
RealityTexts == TextsUpTo(RealityVocab, MaxWords)

\* The create tool's arguments: blank and empty texts as well, and an absent currentReality
OutcomeTexts == TextsUpTo(VisionVocab \cup {"A garden", " "}, MaxWords)
OptionalRealityTexts ==
    {Undefined} \cup {Some(t) : t \in TextsUpTo({"We currently have an empty lot and no funding", " "}, MaxWords)}
Phases == {"germination", "assimilation", "completion"}

\* What executeGeminiCLI may resolve to
Responses == {"generated text"}

NoResult == [status |-> "none"]
NoPrompt == [kind |-> "none"]
NoChart == [kind |-> "none"]

(***************************************************************************)
(* Quality scorer and tension calculator (create.tool.ts).                 *)
(***************************************************************************)
creativeWords == <<"manifest", "bring into being", "establish", "design", "develop", "realize">>
visionProblemWords == <<"solve", "eliminate", "stop", "prevent", "avoid", "fix", "resolve issues">>
objectiveWords == <<"currently", "have", "am", "exists", "experience">>
judgmentWords == <<"terrible", "awful", "wrong", "bad", "should", "must">>
realityActionWords == <<"need to", "plan to", "going to", "will">>

Clamp(score) == Max(1, Min(10, score))

analyzeVisionQuality(vision) ==
    LET lower == toLowerCase(vision)
        s0 == 5
        s1 == s0 + (IF Len(vision) > 50 THEN 1 ELSE 0)
        \* the source tests the text as given here, not its lower-cased form
        s2 == s1 + (IF includes(vision, "create") \/ includes(vision, "build")
                       \/ includes(vision, "achieve") THEN 1 ELSE 0)
        s3 == s2 + (IF ~includes(lower, "problem") /\ ~includes(lower, "fix") THEN 2 ELSE 0)
        s4 == s3 + (IF SomeWord(creativeWords, lower) THEN 2 ELSE 0)
        s5 == s4 - (IF SomeWord(visionProblemWords, lower) THEN 3 ELSE 0)
    IN  Clamp(s5)

\* The reality scorer with the second length bonus replacing the first
analyzeRealityQuality_ElseIf(reality) ==
    LET lower == toLowerCase(reality)
        s0 == 5
        s2 == s0 + (IF Len(reality) > 100 THEN 1 ELSE IF Len(reality) > 30 THEN 1 ELSE 0)
        s3 == s2 + (IF SomeWord(objectiveWords, lower) THEN 1 ELSE 0)
        s4 == s3 - (IF SomeWord(judgmentWords, lower) THEN 2 ELSE 0)
        s5 == s4 - (IF SomeWord(realityActionWords, lower) THEN 1 ELSE 0)
    IN  Clamp(s5)

\* The reality scorer with a judgment word costing 4
analyzeRealityQuality_HeavyJudgment(reality) ==
    LET lower == toLowerCase(reality)
        s0 == 5
        s1 == s0 + (IF Len(reality) > 30 THEN 1 ELSE 0)
        s2 == s1 + (IF Len(reality) > 100 THEN 1 ELSE 0)
        s3 == s2 + (IF SomeWord(objectiveWords, lower) THEN 1 ELSE 0)
        s4 == s3 - (IF SomeWord(judgmentWords, lower) THEN 4 ELSE 0)
        s5 == s4 - (IF SomeWord(realityActionWords, lower) THEN 1 ELSE 0)
    IN  Clamp(s5)

analyzeRealityQuality(reality) ==
    LET lower == toLowerCase(reality)
        s0 == 5
        s1 == s0 + (IF Len(reality) > 30 THEN 1 ELSE 0)
        s2 == s1 + (IF Len(reality) > 100 THEN 1 ELSE 0)
        s3 == s2 + (IF SomeWord(objectiveWords, lower) THEN 1 ELSE 0)
        s4 == s3 - (IF SomeWord(judgmentWords, lower) THEN 2 ELSE 0)
        s5 == s4 - (IF SomeWord(realityActionWords, lower) THEN 1 ELSE 0)
    IN  Clamp(s5)

\* The narrative with the comparison of the two scores made first
generateTensionDescription_CompareFirst(tensionStrength, visionClarity, realityClarity) ==
    IF visionClarity < realityClarity THEN "visionNeedsWork"
    ELSE IF realityClarity < visionClarity THEN "realityNeedsWork"
    ELSE IF tensionStrength >= 8 THEN "excellent"
    ELSE IF tensionStrength >= 6 THEN "good"
    ELSE "bothNeedRefinement"

generateTensionDescription(tensionStrength, visionClarity, realityClarity) ==
    IF tensionStrength >= 8 THEN "excellent"
    ELSE IF tensionStrength >= 6 THEN "good"
    ELSE IF visionClarity < realityClarity THEN "visionNeedsWork"
    ELSE IF realityClarity < visionClarity THEN "realityNeedsWork"
    ELSE "bothNeedRefinement"

TensionOf_Max(visionClarity, realityClarity) == Max(visionClarity, realityClarity)

TensionOf(visionClarity, realityClarity) == Min(visionClarity, realityClarity)

calculateStructuralTension(vision, currentReality) ==
    LET visionClarity == analyzeVisionQuality(vision)
        realityClarity == analyzeRealityQuality(currentReality)
        tensionStrength == TensionOf(visionClarity, realityClarity)
    IN  [ vision |-> vision,
          currentReality |-> currentReality,
          tension |-> tensionStrength,
          energy |-> generateTensionDescription(tensionStrength, visionClarity, realityClarity) ]

(***************************************************************************)
(* The tension calculator applied to every pair of texts.                  *)
(***************************************************************************)
InitTension ==
    /\ tool = "calculateStructuralTension"
    /\ args \in [vision : VisionTexts, currentReality : RealityTexts]
    /\ pc = "start"
    /\ result = NoResult
    /\ trace = << >>
    /\ prompt = NoPrompt
    /\ clock = ClockStart
    /\ chart = NoChart
    /\ requests = << >>

ApplyTension ==
    /\ tool = "calculateStructuralTension"
    /\ pc = "start"
    /\ result' = [status |-> "ok",
                  value |-> calculateStructuralTension(args.vision, args.currentReality)]
    /\ pc' = "returned"
    /\ trace' = Append(trace, "scorer")
    /\ UNCHANGED <<tool, args, prompt, clock, chart, requests>>

NextTension == ApplyTension

SpecTension == InitTension /\ [][NextTension]_vars

(***************************************************************************)
(* The create tool (create.tool.ts).                                       *)
(***************************************************************************)
\* The gate's list with a gap-filling word added
gateProblemWords_WithGap ==
    <<"problem", "challenge", "fix", "solve", "issue", "difficulty", "trouble",
      "prevent", "stop", "avoid", "eliminate", "gap">>

gateProblemWords ==
    <<"problem", "challenge", "fix", "solve", "issue", "difficulty", "trouble",
      "prevent", "stop", "avoid", "eliminate">>

Null == [kind |-> "null"]

\* Returns the redirect text, which quotes the detected words, or null
\* The gate with "improve" among its words
detectProblemSolvingLanguage_WithImprove(text) ==
    LET detectedWords == Detected(Append(gateProblemWords, "improve"), toLowerCase(text))
    IN  IF Len(detectedWords) > 0
        THEN [kind |-> "redirect", detectedWords |-> detectedWords]
        ELSE Null

detectProblemSolvingLanguage(text) ==
    LET detectedWords == Detected(gateProblemWords, toLowerCase(text))
    IN  IF Len(detectedWords) > 0
        THEN [kind |-> "redirect", detectedWords |-> detectedWords]
        ELSE Null

\* `config.currentReality || '...'` : the text, or the template's question
buildGerminationPrompt(config) ==
    [ kind |-> "germinationPrompt",
      desiredOutcome |-> config.desiredOutcome,
      currentReality |-> IF Truthy(config.currentReality) THEN config.currentReality[1]
                         ELSE "Where are you now in relation to this vision?" ]

buildAssimilationPrompt(config) ==
    [ kind |-> "assimilationPrompt",
      desiredOutcome |-> config.desiredOutcome,
      currentReality |-> config.currentReality[1] ]

buildCompletionPrompt(config) ==
    [ kind |-> "completionPrompt",
      desiredOutcome |-> config.desiredOutcome,
      currentReality |-> config.currentReality[1] ]

\* The block shows the vision, the reality and the narrative, not the number
buildStructuralTensionPrompt(tension) ==
    [ kind |-> "tensionBlock",
      vision |-> tension.vision,
      currentReality |-> tension.currentReality,
      energy |-> tension.energy ]

Thrown(error, tr) ==
    [pc |-> "thrown", result |-> [status |-> "error", error |-> error],
     trace |-> tr, prompt |-> NoPrompt]
Returned(value, tr, pr) ==
    [pc |-> "returned", result |-> [status |-> "ok", value |-> value],
     trace |-> tr, prompt |-> pr]
Awaiting(pr, tr) ==
    [pc |-> "awaitGenerate", result |-> NoResult, trace |-> tr, prompt |-> pr]

\* The phase switch with the field checks written without trim()
createPhaseSwitch_NoTrim(a, tr) ==
    LET config == [desiredOutcome |-> a.desiredOutcome, currentReality |-> a.currentReality]
        tr1 == Append(tr, "phaseSwitch")
    IN  CASE a.creativePhase = "germination" ->
               Awaiting(buildGerminationPrompt(config), Append(tr1, "generate"))
          [] a.creativePhase = "assimilation" ->
               IF ~Truthy(a.currentReality)
               THEN Thrown("Assimilation phase requires both your vision AND current reality", tr1)
               ELSE Awaiting(buildAssimilationPrompt(config), Append(tr1, "generate"))
          [] a.creativePhase = "completion" ->
               IF ~Truthy(a.currentReality)
               THEN Thrown("Completion phase requires understanding where you are now", tr1)
               ELSE Awaiting(buildCompletionPrompt(config), Append(tr1, "generate"))
          [] OTHER -> Thrown("Invalid creative phase", tr1)

\* The phase switch: the prompt of the phase, or the error it throws
createPhaseSwitch(a, tr) ==
    LET config == [desiredOutcome |-> a.desiredOutcome, currentReality |-> a.currentReality]
        tr1 == Append(tr, "phaseSwitch")
    IN  CASE a.creativePhase = "germination" ->
               Awaiting(buildGerminationPrompt(config), Append(tr1, "generate"))
          [] a.creativePhase = "assimilation" ->
               IF ~TrimTruthy(a.currentReality)
               THEN Thrown("Assimilation phase requires both your vision AND current reality", tr1)
               ELSE Awaiting(buildAssimilationPrompt(config), Append(tr1, "generate"))
          [] a.creativePhase = "completion" ->
               IF ~TrimTruthy(a.currentReality)
               THEN Thrown("Completion phase requires understanding where you are now", tr1)
               ELSE Awaiting(buildCompletionPrompt(config), Append(tr1, "generate"))
          [] OTHER -> Thrown("Invalid creative phase", tr1)

\* execute with the phase switch run before the gate
createExecute_PhaseFirst(a) ==
    IF ~TrimTruthy(Some(a.desiredOutcome))
    THEN Thrown("What specific outcome do you want to create?", << >>)
    ELSE LET switched == createPhaseSwitch(a, << >>)
             problemRedirect == detectProblemSolvingLanguage(a.desiredOutcome)
         IN  IF switched.pc = "thrown" THEN switched
             ELSE IF problemRedirect # Null
             THEN Returned(<<problemRedirect>>, <<"phaseSwitch", "gate">>, NoPrompt)
             ELSE switched

\* execute without the gate
createExecute_NoGate(a) ==
    IF ~TrimTruthy(Some(a.desiredOutcome))
    THEN Thrown("What specific outcome do you want to create?", << >>)
    ELSE createPhaseSwitch(a, <<"gate">>)

\* execute, from its entry to its first return, throw or await
createExecute(a) ==
    IF ~TrimTruthy(Some(a.desiredOutcome))
    THEN Thrown("What specific outcome do you want to create?", << >>)
    ELSE LET problemRedirect == detectProblemSolvingLanguage(a.desiredOutcome)
         IN  IF problemRedirect # Null
             THEN Returned(<<problemRedirect>>, <<"gate">>, NoPrompt)
             ELSE createPhaseSwitch(a, <<"gate">>)

\* The continuation with the tension block appended in every phase
createResume_AnyPhase(a, tr, pr, response) ==
    LET generated == [kind |-> "generated", text |-> response]
    IN  IF Truthy(a.currentReality)
        THEN LET tension == calculateStructuralTension(a.desiredOutcome, a.currentReality[1])
                 tensionPrompt == buildStructuralTensionPrompt(tension)
             IN  Returned(<<generated, tensionPrompt>>, Append(tr, "scorer"), pr)
        ELSE Returned(<<generated>>, tr, pr)

\* execute, from the resolution of executeGeminiCLI to its return
createResume(a, tr, pr, response) ==
    LET generated == [kind |-> "generated", text |-> response]
    IN  IF a.creativePhase = "assimilation" /\ Truthy(a.currentReality)
        THEN LET tension == calculateStructuralTension(a.desiredOutcome, a.currentReality[1])
                 tensionPrompt == buildStructuralTensionPrompt(tension)
             IN  Returned(<<generated, tensionPrompt>>, Append(tr, "scorer"), pr)
        ELSE Returned(<<generated>>, tr, pr)

Become(next) ==
    /\ pc' = next.pc
    /\ result' = next.result
    /\ trace' = next.trace
    /\ prompt' = next.prompt
    /\ UNCHANGED <<tool, args, clock, chart, requests>>

InitCreate ==
    /\ tool = "create"
    /\ args \in [desiredOutcome : OutcomeTexts,
                 currentReality : OptionalRealityTexts,
                 creativePhase : Phases]
    /\ pc = "start"
    /\ result = NoResult
    /\ trace = << >>
    /\ prompt = NoPrompt
    /\ clock = ClockStart
    /\ chart = NoChart
    /\ requests = << >>

CreateStart ==
    /\ tool = "create"
    /\ pc = "start"
    /\ Become(createExecute(args))

\* executeGeminiCLI resolves
CreateGenerateReturn ==
    /\ tool = "create"
    /\ pc = "awaitGenerate"
    /\ \E response \in Responses : Become(createResume(args, trace, prompt, response))

\* executeGeminiCLI rejects and the call is issued again
CreateGenerateFail_Retry ==
    /\ tool = "create"
    /\ pc = "awaitGenerate"
    /\ Become(Awaiting(prompt, Append(trace, "generate")))

\* executeGeminiCLI rejects: the await throws and execute has no handler
CreateGenerateFail ==
    /\ tool = "create"
    /\ pc = "awaitGenerate"
    /\ Become([Thrown("executeGeminiCLI failed", trace) EXCEPT !.prompt = prompt])

NextCreate == CreateStart \/ CreateGenerateReturn \/ CreateGenerateFail

SpecCreate == InitCreate /\ [][NextCreate]_vars

(***************************************************************************)
(* The bias classifier (bias-detector.tool.ts).                            *)
(***************************************************************************)
\* The problem-solving words without "improve" and "enhance"
problemSolvingWords_NoImprove ==
    <<"problem", "challenge", "issue", "difficulty", "trouble",
      "fix", "solve", "resolve", "address", "tackle",
      "eliminate", "prevent", "stop", "avoid", "reduce",
      "optimize", "upgrade", "better">>

problemSolvingWords ==
    <<"problem", "challenge", "issue", "difficulty", "trouble",
      "fix", "solve", "resolve", "address", "tackle",
      "eliminate", "prevent", "stop", "avoid", "reduce",
      "improve", "enhance", "optimize", "upgrade", "better">>

gapFillingWords ==
    <<"gap", "bridge", "fill", "void", "missing", "lack",
      "need", "should", "must", "require", "necessary">>

reactiveStructures ==
    <<"how to", "ways to", "steps to", "methods for",
      "in order to", "so that", "to ensure">>

BiasVocab ==
    { "a thriving garden",
      "Improve",
      "resolve issues",
      "avoid",
      "what we need",
      "bridge the gap",
      "must fulfill",
      "steps to ensure",
      "how to find ways to" }

BiasTexts == TextsUpTo(BiasVocab, MaxWords)

generateReframeSuggestions(detectedWords, biasType) ==
    CASE biasType = "problem-solving" ->
           <<"Reframe from 'What problem needs solving?' to 'What outcome do I want to create?'",
             "Replace problem language with desired end states",
             "Focus on what you want to bring into being, not what you want to eliminate">>
      [] biasType = "gap-filling" ->
           <<"Instead of 'bridging gaps', describe the complete desired outcome",
             "Replace 'what's missing' with 'what I want to establish'",
             "Shift from void-elimination to outcome-manifestation">>
      [] biasType = "enhancement" ->
           <<"Move from 'making X better' to 'creating specific desired version of X'",
             "Define the complete desired outcome, not improvements to current state",
             "Ask 'What do I want to create?' rather than 'How can I improve this?'">>
      [] biasType = "reactive" ->
           <<"Identify the desired outcome first, then consider structural tension",
             "Replace reactive responses with proactive creation",
             "Focus on advancing toward vision, not reacting to circumstances">>
      [] OTHER -> <<"Consider using creative orientation language">>

SeverityOfCount_From3(n) == IF n >= 3 THEN "high" ELSE IF n > 1 THEN "medium" ELSE "low"

\* length > 3 ? 'high' : length > 1 ? 'medium' : 'low'
SeverityOfCount(n) == IF n > 3 THEN "high" ELSE IF n > 1 THEN "medium" ELSE "low"

BiasTypeOf_DefaultNone(detectedProblems, detectedGaps, lower) ==
    IF Len(detectedProblems) > 0 THEN "problem-solving"
    ELSE IF Len(detectedGaps) > 0 THEN "gap-filling"
    ELSE IF includes(lower, "improve") \/ includes(lower, "enhance") THEN "enhancement"
    ELSE "none"

\* The if/else chain's biasType; 'reactive' is the value it starts from
BiasTypeOf(detectedProblems, detectedGaps, lower) ==
    IF Len(detectedProblems) > 0 THEN "problem-solving"
    ELSE IF Len(detectedGaps) > 0 THEN "gap-filling"
    ELSE IF includes(lower, "improve") \/ includes(lower, "enhance") THEN "enhancement"
    ELSE "reactive"

\* The if/else chain's severity; 'low' is the value it starts from
SeverityOf(detectedProblems, detectedGaps, lower) ==
    IF Len(detectedProblems) > 0 THEN SeverityOfCount(Len(detectedProblems))
    ELSE IF Len(detectedGaps) > 0 THEN SeverityOfCount(Len(detectedGaps))
    ELSE IF includes(lower, "improve") \/ includes(lower, "enhance") THEN "medium"
    ELSE "low"

\* The classifier with the gap-filling matches reported first
detectReactivePatterns_GapsFirst(text) ==
    LET lower == toLowerCase(text)
        detectedProblems == Detected(problemSolvingWords, lower)
        detectedGaps == Detected(gapFillingWords, lower)
        detectedStructures == Detected(reactiveStructures, lower)
        allDetected == detectedGaps \o detectedProblems \o detectedStructures
    IN  IF Len(allDetected) = 0
        THEN [ hasBias |-> FALSE,
               detectedPatterns |-> << >>,
               biasType |-> "none",
               severity |-> "low",
               suggestions |-> << >> ]
        ELSE LET biasType == BiasTypeOf(detectedProblems, detectedGaps, lower)
             IN  [ hasBias |-> TRUE,
                   detectedPatterns |-> allDetected,
                   biasType |-> biasType,
                   severity |-> SeverityOf(detectedProblems, detectedGaps, lower),
                   suggestions |-> generateReframeSuggestions(allDetected, biasType) ]

detectReactivePatterns(text) ==
    LET lower == toLowerCase(text)
        detectedProblems == Detected(problemSolvingWords, lower)
        detectedGaps == Detected(gapFillingWords, lower)
        detectedStructures == Detected(reactiveStructures, lower)
        allDetected == detectedProblems \o detectedGaps \o detectedStructures
    IN  IF Len(allDetected) = 0
        THEN [ hasBias |-> FALSE,
               detectedPatterns |-> << >>,
               biasType |-> "none",
               severity |-> "low",
               suggestions |-> << >> ]
        ELSE LET biasType == BiasTypeOf(detectedProblems, detectedGaps, lower)
             IN  [ hasBias |-> TRUE,
                   detectedPatterns |-> allDetected,
                   biasType |-> biasType,
                   severity |-> SeverityOf(detectedProblems, detectedGaps, lower),
                   suggestions |-> generateReframeSuggestions(allDetected, biasType) ]

\* The classifier applied to every text
InitClassifier ==
    /\ tool = "detectReactivePatterns"
    /\ args \in [text : BiasTexts]
    /\ pc = "start"
    /\ result = NoResult
    /\ trace = << >>
    /\ prompt = NoPrompt
    /\ clock = ClockStart
    /\ chart = NoChart
    /\ requests = << >>

ApplyClassifier ==
    /\ tool = "detectReactivePatterns"
    /\ pc = "start"
    /\ result' = [status |-> "ok", value |-> detectReactivePatterns(args.text)]
    /\ pc' = "returned"
    /\ trace' = Append(trace, "classifier")
    /\ UNCHANGED <<tool, args, prompt, clock, chart, requests>>

NextClassifier == ApplyClassifier

SpecClassifier == InitClassifier /\ [][NextClassifier]_vars

(***************************************************************************)
(* The chart validator (create-tension-chart.tool.ts).                     *)
(***************************************************************************)
chartProblemWords == <<"fix", "solve", "eliminate", "prevent", "stop", "avoid", "reduce">>
chartActionWords == <<"need to", "should", "must", "will", "plan to", "going to">>

ChartOutcomeTexts ==
    TextsUpTo({"Establish clear practices", "Fix", "reduce and prevent waste"}, MaxWords)
ChartRealityTexts ==
    TextsUpTo({"We currently have an empty lot", "I Should", "we will plan to"}, MaxWords)
DueDates == {"2020-01-01", "2026-11-05", "2031-03-15", "someday"}

\* The validator with the reality wording checked before the outcome wording
validateChartElements_RealityFirst(desiredOutcome, currentReality, dueDate, now) ==
    LET detectedProblems == Detected(chartProblemWords, toLowerCase(desiredOutcome))
        detectedActions == Detected(chartActionWords, toLowerCase(currentReality))
        dueDateTime == NewDate(dueDate)
    IN  IF Len(detectedActions) > 0
        THEN [kind |-> "realityIssue", detected |-> detectedActions]
        ELSE IF Len(detectedProblems) > 0
        THEN [kind |-> "outcomeIssue", detected |-> detectedProblems]
        ELSE IF dueDateTime.nan THEN [kind |-> "dueDateFormat"]
        ELSE IF dueDateTime.time < now THEN [kind |-> "dueDatePast"]
        ELSE Null

\* The first violated rule's message (the wording messages quote the detected
\* words), or null; `now` is the clock `new Date()` reads
validateChartElements(desiredOutcome, currentReality, dueDate, now) ==
    LET detectedProblems == Detected(chartProblemWords, toLowerCase(desiredOutcome))
        detectedActions == Detected(chartActionWords, toLowerCase(currentReality))
        dueDateTime == NewDate(dueDate)
    IN  IF Len(detectedProblems) > 0
        THEN [kind |-> "outcomeIssue", detected |-> detectedProblems]
        ELSE IF Len(detectedActions) > 0
        THEN [kind |-> "realityIssue", detected |-> detectedActions]
        ELSE IF dueDateTime.nan THEN [kind |-> "dueDateFormat"]
        ELSE IF dueDateTime.time < now THEN [kind |-> "dueDatePast"]
        ELSE Null

\* The validator applied to every triple of arguments, at every clock reading
InitValidator ==
    /\ tool = "validateChartElements"
    /\ args \in [desiredOutcome : ChartOutcomeTexts,
                 currentReality : ChartRealityTexts,
                 dueDate : DueDates]
    /\ pc = "start"
    /\ result = NoResult
    /\ trace = << >>
    /\ prompt = NoPrompt
    /\ clock \in Clocks
    /\ chart = NoChart
    /\ requests = << >>

ApplyValidator ==
    /\ tool = "validateChartElements"
    /\ pc = "start"
    /\ result' = [status |-> "ok",
                  value |-> validateChartElements(args.desiredOutcome, args.currentReality,
                                                  args.dueDate, clock)]
    /\ pc' = "returned"
    /\ trace' = Append(trace, "validator")
    /\ UNCHANGED <<tool, args, prompt, clock, chart, requests>>

NextValidator == ApplyValidator

SpecValidator == InitValidator /\ [][NextValidator]_vars

(***************************************************************************)
(* The chart tool's execute (create-tension-chart.tool.ts).                *)
(***************************************************************************)
\* What Math.random().toString(36).substr(2, 9) may yield
RandomSuffixes == {"k3n9x1q0z", "7f2m4a"}

ChartToolOutcomes == TextsUpTo({"Establish clear practices", "Fix", " "}, MaxWords)
ChartToolRealities == TextsUpTo({"We currently have an empty lot", "I Should"}, MaxWords)
ActionStepLists == {Undefined, Some(<<"survey the lot", "meet the neighbours">>)}

\* `chart_${Date.now()}_${random suffix}`
generateChartId(now, random) == [prefix |-> "chart", time |-> now, suffix |-> random]

buildTensionChartPrompt(ch) == [kind |-> "tensionChartPrompt", chart |-> ch]

WithChart(next, ch) ==
    [pc |-> next.pc, result |-> next.result, trace |-> next.trace,
     prompt |-> next.prompt, chart |-> ch]

\* execute with the chart constructed before the elements are validated
chartExecute_ChartFirst(a, now, random, created) ==
    IF ~TrimTruthy(Some(a.desiredOutcome))
    THEN WithChart(Thrown("What specific positive outcome do you want to create?", << >>),
                   NoChart)
    ELSE IF ~TrimTruthy(Some(a.currentReality))
    THEN WithChart(Thrown("Where are you now in relation to this outcome?", << >>), NoChart)
    ELSE LET ch == [ id |-> generateChartId(now, random),
                     desiredOutcome |-> a.desiredOutcome,
                     currentReality |-> a.currentReality,
                     dueDate |-> a.dueDate,
                     actionSteps |-> IF IsDefined(a.actionSteps)
                                     THEN a.actionSteps[1] ELSE << >>,
                     createdAt |-> created ]
             validationIssue ==
                 validateChartElements(a.desiredOutcome, a.currentReality, a.dueDate, now)
             analysisPrompt == [kind |-> "chartAnalysisPrompt",
                                chartPrompt |-> buildTensionChartPrompt(ch)]
         IN  IF validationIssue # Null
             THEN WithChart(Returned(<<validationIssue>>,
                                     <<"generateChartId", "validator">>, NoPrompt), ch)
             ELSE WithChart(Awaiting(analysisPrompt,
                                     <<"generateChartId", "validator", "generate">>), ch)

\* execute, up to its return, its throw or its call of executeGeminiCLI; `now`,
\* `random` and `created` are what Date.now(), Math.random() and the later
\* `new Date()` yield
chartExecute(a, now, random, created) ==
    IF ~TrimTruthy(Some(a.desiredOutcome))
    THEN WithChart(Thrown("What specific positive outcome do you want to create?", << >>),
                   NoChart)
    ELSE IF ~TrimTruthy(Some(a.currentReality))
    THEN WithChart(Thrown("Where are you now in relation to this outcome?", << >>), NoChart)
    ELSE LET validationIssue ==
                 validateChartElements(a.desiredOutcome, a.currentReality, a.dueDate, now)
         IN  IF validationIssue # Null
             THEN WithChart(Returned(<<validationIssue>>, <<"validator">>, NoPrompt), NoChart)
             ELSE LET ch == [ id |-> generateChartId(now, random),
                              desiredOutcome |-> a.desiredOutcome,
                              currentReality |-> a.currentReality,
                              dueDate |-> a.dueDate,
                              actionSteps |-> IF IsDefined(a.actionSteps)
                                              THEN a.actionSteps[1] ELSE << >>,
                              createdAt |-> created ]
                      analysisPrompt == [kind |-> "chartAnalysisPrompt",
                                         chartPrompt |-> buildTensionChartPrompt(ch)]
                  IN  WithChart(Awaiting(analysisPrompt,
                                         <<"validator", "generateChartId", "generate">>),
                                ch)

\* The continuation without the chart summary
chartResume_NoSummary(a, ch, tr, pr, response) ==
    LET generated == [kind |-> "generated", text |-> response]
        memoryNote == [kind |-> "memoryNote", persistent |-> a.saveToMemory]
    IN  WithChart(Returned(<<generated, memoryNote>>, tr, pr), ch)

\* execute, from the resolution of executeGeminiCLI to its return
chartResume(a, ch, tr, pr, response) ==
    LET generated == [kind |-> "generated", text |-> response]
        memoryNote == [kind |-> "memoryNote", persistent |-> a.saveToMemory]
        chartSummary == [ kind |-> "chartSummary",
                          id |-> ch.id,
                          outcome |-> ch.desiredOutcome,
                          reality |-> ch.currentReality,
                          due |-> NewDate(ch.dueDate).time,
                          actions |-> Len(ch.actionSteps) ]
    IN  WithChart(Returned(<<generated, memoryNote, chartSummary>>, tr, pr), ch)

BecomeChart(next) ==
    /\ pc' = next.pc
    /\ result' = next.result
    /\ trace' = next.trace
    /\ prompt' = next.prompt
    /\ chart' = next.chart
    /\ UNCHANGED <<tool, args, clock, requests>>

InitChartTool ==
    /\ tool = "create-tension-chart"
    /\ args \in [desiredOutcome : ChartToolOutcomes,
                 currentReality : ChartToolRealities,
                 dueDate : DueDates,
                 actionSteps : ActionStepLists,
                 saveToMemory : BOOLEAN]
    /\ pc = "start"
    /\ result = NoResult
    /\ trace = << >>
    /\ prompt = NoPrompt
    /\ clock = ClockStart
    /\ chart = NoChart
    /\ requests = << >>

ChartStart ==
    /\ tool = "create-tension-chart"
    /\ pc = "start"
    /\ \E random \in RandomSuffixes, created \in {t \in Clocks : t >= clock} :
           BecomeChart(chartExecute(args, clock, random, created))

\* executeGeminiCLI resolves
ChartGenerateReturn ==
    /\ tool = "create-tension-chart"
    /\ pc = "awaitGenerate"
    /\ \E response \in Responses :
           BecomeChart(chartResume(args, chart, trace, prompt, response))

\* executeGeminiCLI rejects: the await throws and execute has no handler
ChartGenerateFail ==
    /\ tool = "create-tension-chart"
    /\ pc = "awaitGenerate"
    /\ Become([Thrown("executeGeminiCLI failed", trace) EXCEPT !.prompt = prompt])

NextChartTool == ChartStart \/ ChartGenerateReturn \/ ChartGenerateFail

(***************************************************************************)
(* The bias tool's execute (bias-detector.tool.ts).                        *)
(***************************************************************************)
BiasFocuses == {"problem-solving", "gap-filling", "enhancement", "reactive", "all"}
BiasToolTexts == BiasTexts \cup {" "}

buildBiasAnalysisPrompt(text, analysis) ==
    IF ~analysis.hasBias
    THEN [kind |-> "cleanReport", text |-> text]
    ELSE [ kind |-> "biasReport",
           text |-> text,
           biasType |-> analysis.biasType,
           severity |-> analysis.severity,
           detectedPatterns |-> analysis.detectedPatterns,
           suggestions |-> analysis.suggestions ]

\* execute with the analysis kept only when its type is the one `focus` names
biasExecute_FocusFilter(a) ==
    IF ~TrimTruthy(Some(a.text))
    THEN Thrown("What text do you want to analyze for reactive bias patterns?", << >>)
    ELSE LET found == detectReactivePatterns(a.text)
             analysis == IF a.focus = "all" \/ a.focus = found.biasType
                         THEN found
                         ELSE [ hasBias |-> FALSE, detectedPatterns |-> << >>,
                                biasType |-> "none", severity |-> "low",
                                suggestions |-> << >> ]
             analysisResult == buildBiasAnalysisPrompt(a.text, analysis)
         IN  IF ~a.autoCorrect \/ ~analysis.hasBias
             THEN Returned(<<analysisResult>>, <<"classifier">>, NoPrompt)
             ELSE Awaiting([kind |-> "correctionPrompt",
                            analysisResult |-> analysisResult,
                            text |-> a.text],
                           <<"classifier", "generate">>)

\* execute, up to its return, its throw or its call of executeGeminiCLI
biasExecute(a) ==
    IF ~TrimTruthy(Some(a.text))
    THEN Thrown("What text do you want to analyze for reactive bias patterns?", << >>)
    ELSE LET analysis == detectReactivePatterns(a.text)
             analysisResult == buildBiasAnalysisPrompt(a.text, analysis)
         IN  IF ~a.autoCorrect \/ ~analysis.hasBias
             THEN Returned(<<analysisResult>>, <<"classifier">>, NoPrompt)
             ELSE Awaiting([kind |-> "correctionPrompt",
                            analysisResult |-> analysisResult,
                            text |-> a.text],
                           <<"classifier", "generate">>)

\* The continuation returning the correction without the report
biasResume_CorrectionOnly(a, tr, pr, response) ==
    Returned(<<[kind |-> "autoCorrection", text |-> response]>>, tr, pr)

\* execute, from the resolution of executeGeminiCLI to its return
biasResume(a, tr, pr, response) ==
    Returned(<<pr.analysisResult, [kind |-> "autoCorrection", text |-> response]>>, tr, pr)

InitBiasTool ==
    /\ tool = "bias-detector"
    /\ args \in [text : BiasToolTexts, autoCorrect : BOOLEAN, focus : BiasFocuses]
    /\ pc = "start"
    /\ result = NoResult
    /\ trace = << >>
    /\ prompt = NoPrompt
    /\ clock = ClockStart
    /\ chart = NoChart
    /\ requests = << >>

BiasStart ==
    /\ tool = "bias-detector"
    /\ pc = "start"
    /\ Become(biasExecute(args))

\* executeGeminiCLI resolves
BiasGenerateReturn ==
    /\ tool = "bias-detector"
    /\ pc = "awaitGenerate"
    /\ \E response \in Responses : Become(biasResume(args, trace, prompt, response))

\* executeGeminiCLI rejects: the await throws and execute has no handler
BiasGenerateFail ==
    /\ tool = "bias-detector"
    /\ pc = "awaitGenerate"
    /\ Become([Thrown("executeGeminiCLI failed", trace) EXCEPT !.prompt = prompt])

NextBiasTool == BiasStart \/ BiasGenerateReturn \/ BiasGenerateFail

(***************************************************************************)
(* One request to any of the three tools.  The fair specification adds     *)
(* that a handler that can take a step takes it: the event loop runs a     *)
(* received request, and executeGeminiCLI settles (resolves or rejects).   *)
(***************************************************************************)
InitTools == InitCreate \/ InitChartTool \/ InitBiasTool

NextTools == NextCreate \/ NextChartTool \/ NextBiasTool

SpecTools == InitTools /\ [][NextTools]_vars

\* The requests of the fair specification: one short text for each branch
\* of each handler
FairCreateArgs ==
    [desiredOutcome : {"", "Fix it", "Establish calm"},
     currentReality : {Undefined, Some(" "), Some("We have a lot")},
     creativePhase : Phases]
FairChartArgs ==
    [desiredOutcome : {" ", "Establish calm"},
     currentReality : {"", "We have a lot", "I will"},
     dueDate : {"2020-01-01", "2031-03-15", "someday"},
     actionSteps : ActionStepLists,
     saveToMemory : BOOLEAN]
FairBiasArgs ==
    [text : {" ", "a garden", "Fix"}, autoCorrect : BOOLEAN, focus : {"all", "reactive"}]

InitToolsFair ==
    /\ \/ tool = "create" /\ args \in FairCreateArgs
       \/ tool = "create-tension-chart" /\ args \in FairChartArgs
       \/ tool = "bias-detector" /\ args \in FairBiasArgs
    /\ pc = "start"
    /\ result = NoResult
    /\ trace = << >>
    /\ prompt = NoPrompt
    /\ clock = ClockStart
    /\ chart = NoChart
    /\ requests = << >>

\* The event loop runs the handler of a received request
HandlerRuns == CreateStart \/ ChartStart \/ BiasStart

\* The promise of executeGeminiCLI is pending.  It is pending exactly where
\* the resolving and the rejecting steps are enabled, so weak fairness of
\* the rejecting step says no more than that the promise settles, one way
\* or the other: a resolving step ends the obligation as well.
GenerateRejects == CreateGenerateFail \/ ChartGenerateFail \/ BiasGenerateFail

SpecToolsFair ==
    /\ InitToolsFair
    /\ [][NextTools]_vars
    /\ WF_vars(HandlerRuns)
    /\ WF_vars(GenerateRejects)

(***************************************************************************)
(* A server with several requests in progress.  Each call of execute has   *)
(* its own arguments and local constants; the handlers of different        *)
(* requests interleave at their awaits of executeGeminiCLI.                *)
(***************************************************************************)
ServerCalls ==
    { [tool |-> "create",
       args |-> [desiredOutcome |-> "Establish calm",
                 currentReality |-> Some("We have a lot"),
                 creativePhase |-> "assimilation"]],
      [tool |-> "create-tension-chart",
       args |-> [desiredOutcome |-> "Establish calm",
                 currentReality |-> "We have a lot",
                 dueDate |-> "2031-03-15",
                 actionSteps |-> Undefined,
                 saveToMemory |-> TRUE]],
      [tool |-> "bias-detector",
       args |-> [text |-> "Fix", autoCorrect |-> TRUE, focus |-> "all"]] }

ServerResponses == Responses \cup {"another generated text"}

\* What a handler read from the clock and from Math.random(); a handler that
\* reads neither keeps NoReadings
NoReadings == [now |-> ClockStart, random |-> "", created |-> ClockStart]
NotSettled == [kind |-> "pending"]

Received(call) ==
    [ tool |-> call.tool, args |-> call.args,
      pc |-> "start", result |-> NoResult, trace |-> << >>, prompt |-> NoPrompt,
      chart |-> NoChart,
      readings |-> NoReadings,     \* ghost: the clock and random values read
      settled |-> NotSettled ]     \* ghost: how executeGeminiCLI settled

\* execute of the named tool, to its return, its throw or its await
executeTool(name, a, readings) ==
    CASE name = "create" -> WithChart(createExecute(a), NoChart)
      [] name = "create-tension-chart" ->
             chartExecute(a, readings.now, readings.random, readings.created)
      [] name = "bias-detector" -> WithChart(biasExecute(a), NoChart)

\* execute of the named tool from the resolution of its await, with the
\* arguments and constants `locals` of that call
resumeTool(name, locals, response) ==
    CASE name = "create" ->
             WithChart(createResume(locals.args, locals.trace, locals.prompt, response),
                       locals.chart)
      [] name = "create-tension-chart" ->
             chartResume(locals.args, locals.chart, locals.trace, locals.prompt, response)
      [] name = "bias-detector" ->
             WithChart(biasResume(locals.args, locals.trace, locals.prompt, response),
                       locals.chart)

\* The arguments and constants held in variables of the tool's module, where
\* the latest call of the tool that has run overwrites them
Locals_Shared(i) ==
    LET ran == {j \in 1..Len(requests) :
                   requests[j].tool = requests[i].tool /\ requests[j].pc # "start"}
    IN  requests[CHOOSE j \in ran : \A k \in ran : k <= j]

\* The arguments and constants of call i: they are parameters and `const`
\* declarations of execute, one set for each call
Locals(i) == requests[i]

Advance(request, next) ==
    [request EXCEPT !.pc = next.pc, !.result = next.result, !.trace = next.trace,
                    !.prompt = next.prompt, !.chart = next.chart]

InitServer ==
    /\ tool = "server"
    /\ args = << >>
    /\ pc = "serving"
    /\ result = NoResult
    /\ trace = << >>
    /\ prompt = NoPrompt
    /\ clock = ClockStart
    /\ chart = NoChart
    /\ requests = << >>

\* A request arrives
Receive ==
    /\ Len(requests) < MaxRequests
    /\ \E call \in ServerCalls : requests' = Append(requests, Received(call))
    /\ UNCHANGED <<tool, args, pc, result, trace, prompt, clock, chart>>

\* The handler of request i runs to its return, its throw or its await
Run(i) ==
    /\ requests[i].pc = "start"
    /\ \E random \in RandomSuffixes :
           LET readings == IF requests[i].tool = "create-tension-chart"
                           THEN [now |-> clock, random |-> random, created |-> clock]
                           ELSE NoReadings
               next == executeTool(requests[i].tool, requests[i].args, readings)
           IN  requests' = [requests EXCEPT
                               ![i] = [Advance(@, next) EXCEPT !.readings = readings]]
    /\ UNCHANGED <<tool, args, pc, result, trace, prompt, clock, chart>>

\* executeGeminiCLI resolves for request i
Resolve(i) ==
    /\ requests[i].pc = "awaitGenerate"
    /\ \E response \in ServerResponses :
           LET next == resumeTool(requests[i].tool, Locals(i), response)
           IN  requests' = [requests EXCEPT
                               ![i] = [Advance(@, next) EXCEPT
                                          !.settled = [kind |-> "resolved",
                                                       response |-> response]]]
    /\ UNCHANGED <<tool, args, pc, result, trace, prompt, clock, chart>>

\* executeGeminiCLI rejects for request i
Reject(i) ==
    /\ requests[i].pc = "awaitGenerate"
    /\ LET next == WithChart([Thrown("executeGeminiCLI failed", requests[i].trace)
                                 EXCEPT !.prompt = requests[i].prompt],
                             requests[i].chart)
       IN  requests' = [requests EXCEPT
                           ![i] = [Advance(@, next) EXCEPT
                                      !.settled = [kind |-> "rejected"]]]
    /\ UNCHANGED <<tool, args, pc, result, trace, prompt, clock, chart>>

\* Time passes
Tick ==
    /\ clock = ClockStart
    /\ clock' = ClockStart + 12
    /\ UNCHANGED <<tool, args, pc, result, trace, prompt, chart, requests>>

NextServer ==
    \/ Receive
    \/ \E i \in 1..Len(requests) : Run(i)
    \/ \E i \in 1..Len(requests) : Resolve(i)
    \/ \E i \in 1..Len(requests) : Reject(i)
    \/ Tick

SpecServer == InitServer /\ [][NextServer]_vars

(***************************************************************************)
(* The gate of the create tool and the bias classifier applied to the same *)
(* text.                                                                   *)
(***************************************************************************)
InitGate ==
    /\ tool = "gateAndClassifier"
    /\ args \in [text : BiasTexts]
    /\ pc = "start"
    /\ result = NoResult
    /\ trace = << >>
    /\ prompt = NoPrompt
    /\ clock = ClockStart
    /\ chart = NoChart
    /\ requests = << >>

ApplyGate ==
    /\ tool = "gateAndClassifier"
    /\ pc = "start"
    /\ result' = [status |-> "ok",
                  value |-> [redirect |-> detectProblemSolvingLanguage(args.text),
                             analysis |-> detectReactivePatterns(args.text)]]
    /\ pc' = "returned"
    /\ trace' = trace \o <<"gate", "classifier">>
    /\ UNCHANGED <<tool, args, prompt, clock, chart, requests>>

NextGate == ApplyGate

SpecGate == InitGate /\ [][NextGate]_vars

(***************************************************************************)
(* The structural-observe tool (structural-observe.tool.ts).  A request    *)
(* carries the input, the step (absent: the default 'nothing') and the     *)
(* optional currentImage.                                                  *)
(***************************************************************************)
ObserveInputs == TextsUpTo({"The team meets weekly", " "}, MaxWords)
ObserveSteps == {Undefined, Some("nothing"), Some("picture"), Some("questions"),
                 Some("complete"), Some("summary")}
ObserveImages == {Undefined} \cup {Some(t) : t \in TextsUpTo({"a table with four chairs", " "}, MaxWords)}

\* `step = 'nothing'` of the destructuring
StepOf(a) == IF IsDefined(a.step) THEN a.step[1] ELSE "nothing"

\* The prompt of each step: the step's instructions around the text they quote
buildObservePrompt(step, a) ==
    CASE step = "nothing" -> [kind |-> "nothingPrompt", input |-> a.input]
      [] step = "picture" -> [kind |-> "picturePrompt", input |-> a.input]
      [] step = "questions" -> [kind |-> "questionsPrompt", currentImage |-> a.currentImage[1]]
      [] step = "complete" -> [kind |-> "completePrompt", input |-> a.input]

\* The footer appended to the result of executeGeminiCLI (its words, without the markup)
nextStepGuidance(step) ==
    IF step = "complete"
    THEN "Next: Use detect-patterns to identify if this structure produces oscillation or advancing behavior."
    ELSE IF step = "nothing"
    THEN "Next: Use step='picture' to build your mental image of this situation."
    ELSE IF step = "picture"
    THEN "Next: Use step='questions' with your mental picture to generate internally-motivated questions."
    ELSE "Next: Use step='complete' to apply full structural observation or detect-patterns to analyze behavioral patterns."

\* execute with every step asking for the current image
observeExecute_ImageForAll(a) ==
    LET step == StepOf(a)
    IN  IF ~TrimTruthy(Some(a.input))
        THEN Thrown("What situation or system do you want to observe structurally? Describe what you're seeing without interpretation.", << >>)
        ELSE IF step \notin {"nothing", "picture", "questions", "complete"}
        THEN Thrown("Invalid step. Use: nothing, picture, questions, or complete.", <<"stepSwitch">>)
        ELSE IF ~TrimTruthy(a.currentImage)
        THEN Thrown("Questions step requires your current mental picture to generate internally-motivated questions.", <<"stepSwitch">>)
        ELSE Awaiting([kind |-> "picturePrompt", input |-> a.input], <<"stepSwitch", "generate">>)

\* execute, up to its throw or its call of executeGeminiCLI
observeExecute(a) ==
    LET step == StepOf(a)
    IN  IF ~TrimTruthy(Some(a.input))
        THEN Thrown("What situation or system do you want to observe structurally? Describe what you're seeing without interpretation.", << >>)
        ELSE IF step \notin {"nothing", "picture", "questions", "complete"}
        THEN Thrown("Invalid step. Use: nothing, picture, questions, or complete.", <<"stepSwitch">>)
        ELSE IF step = "questions" /\ ~TrimTruthy(a.currentImage)
        THEN Thrown("Questions step requires your current mental picture to generate internally-motivated questions.", <<"stepSwitch">>)
        ELSE Awaiting(buildObservePrompt(step, a), <<"stepSwitch", "generate">>)

\* execute, from the resolution of executeGeminiCLI to its return
observeResume(a, tr, pr, response) ==
    Returned(<<[kind |-> "generated", text |-> response],
               [kind |-> "nextStep", text |-> nextStepGuidance(StepOf(a))]>>, tr, pr)

InitObserve ==
    /\ tool = "structural-observe"
    /\ args \in [input : ObserveInputs, step : ObserveSteps, currentImage : ObserveImages]
    /\ pc = "start"
    /\ result = NoResult
    /\ trace = << >>
    /\ prompt = NoPrompt
    /\ clock = ClockStart
    /\ chart = NoChart
    /\ requests = << >>

ObserveStart ==
    /\ tool = "structural-observe"
    /\ pc = "start"
    /\ Become(observeExecute(args))

\* executeGeminiCLI resolves
ObserveGenerateReturn ==
    /\ tool = "structural-observe"
    /\ pc = "awaitGenerate"
    /\ \E response \in Responses : Become(observeResume(args, trace, prompt, response))

\* executeGeminiCLI rejects: the await throws and execute has no handler
ObserveGenerateFail ==
    /\ tool = "structural-observe"
    /\ pc = "awaitGenerate"
    /\ Become([Thrown("executeGeminiCLI failed", trace) EXCEPT !.prompt = prompt])

NextObserve == ObserveStart \/ ObserveGenerateReturn \/ ObserveGenerateFail

SpecObserve == InitObserve /\ [][NextObserve]_vars

(***************************************************************************)
(* Properties of the create tool and the tension calculator.               *)
(***************************************************************************)
Invoked(component) == \E i \in 1..Len(trace) : trace[i] = component
Finished == pc \in {"returned", "thrown"}

\* The gate words as the specification lists them
C1_GateWords ==
    {"problem", "challenge", "fix", "solve", "issue", "difficulty", "trouble",
     "prevent", "stop", "avoid", "eliminate"}
C1_HasGateWord(text) == \E w \in C1_GateWords : includes(toLowerCase(text), w)

\* C1: a create request whose desiredOutcome contains a gate word (in any case,
\* also inside a longer word) ends with the redirect artifact as a normal
\* result, and neither the phase switch, nor the scorer, nor generate ran.
C1_GateRedirects ==
    (tool = "create" /\ pc # "start" /\ C1_HasGateWord(args.desiredOutcome)) =>
        /\ pc = "returned"
        /\ result.status = "ok"
        /\ Len(result.value) = 1
        /\ result.value[1].kind = "redirect"
        /\ ~Invoked("phaseSwitch") /\ ~Invoked("scorer") /\ ~Invoked("generate")
        /\ prompt = NoPrompt

C1_Witness ==
    /\ tool = "create" /\ pc = "returned"
    /\ args.desiredOutcome = "Build an unstoppable team"
    /\ args.creativePhase = "assimilation"
    /\ args.currentReality = Undefined
    /\ result.value[1].kind = "redirect"

C2_Blank(o) == ~IsDefined(o) \/ \A i \in 1..Len(o[1]) : CharAt(o[1], i) = " "

\* C2 as claimed, read for requests with a non-blank desiredOutcome: with an
\* empty currentReality every assimilation or completion request ends in an
\* error, and every germination request passes validation and, unless generate
\* itself fails, ends with the generation result.
C2_AsClaimed ==
    (tool = "create" /\ Finished /\ C2_Blank(args.currentReality)
        /\ ~C2_Blank(Some(args.desiredOutcome))) =>
        IF args.creativePhase \in {"assimilation", "completion"}
        THEN result.status = "error"
        ELSE \/ result.status = "ok" /\ result.value[1].kind = "generated"
             \/ result.status = "error" /\ result.error = "executeGeminiCLI failed"

\* C2 (amended): unless the gate redirects, an assimilation or completion
\* request with an empty currentReality throws and never calls generate; a
\* germination request with the same currentReality and a non-blank
\* desiredOutcome free of gate words calls generate and, when generate
\* returns, returns the generation result.
C2_PhaseGating ==
    (tool = "create" /\ pc # "start" /\ C2_Blank(args.currentReality)
        /\ ~C1_HasGateWord(args.desiredOutcome)) =>
        IF args.creativePhase \in {"assimilation", "completion"}
        THEN /\ pc = "thrown"
             /\ result.status = "error"
             /\ result.error # "executeGeminiCLI failed"
             /\ ~Invoked("generate")
             /\ prompt = NoPrompt
        ELSE C2_Blank(Some(args.desiredOutcome)) \/
             /\ Invoked("generate")
             /\ prompt.kind = "germinationPrompt"
             /\ pc = "returned" =>
                    result.status = "ok" /\ result.value = <<[kind |-> "generated", text |-> result.value[1].text]>>
             /\ pc = "thrown" => result.error = "executeGeminiCLI failed"

C2_Witness ==
    /\ tool = "create" /\ pc = "thrown"
    /\ args.creativePhase = "completion"
    /\ args.currentReality = Some(" ")
    /\ args.desiredOutcome = "Establish a thriving community garden"

\* C3: a create request that returns the generation result returns it followed
\* by the tension block of (desiredOutcome, currentReality) when the phase is
\* assimilation, and alone in the other phases.
C3_TensionOnlyInAssimilation ==
    (tool = "create" /\ pc = "returned" /\ result.value[1].kind = "generated") =>
        IF args.creativePhase = "assimilation"
        THEN /\ Len(result.value) = 2
             /\ result.value[2].kind = "tensionBlock"
             /\ result.value[2].vision = args.desiredOutcome
             /\ result.value[2].currentReality = args.currentReality[1]
             /\ result.value[2].energy =
                    calculateStructuralTension(args.desiredOutcome, args.currentReality[1]).energy
        ELSE Len(result.value) = 1 /\ ~Invoked("scorer")

C3_Witness ==
    /\ tool = "create" /\ pc = "returned"
    /\ args.creativePhase = "assimilation"
    /\ Len(result.value) = 2
    /\ result.value[2].kind = "tensionBlock"

\* C4: the tension returned for a pair of texts is the smaller of the two
\* quality scores, and both scores and the tension lie in 1..10.
C4_TensionIsMin ==
    (tool = "calculateStructuralTension" /\ pc = "returned") =>
        LET v == analyzeVisionQuality(args.vision)
            r == analyzeRealityQuality(args.currentReality)
            t == result.value.tension
        IN  /\ t = (IF v <= r THEN v ELSE r)
            /\ v \in 1..10 /\ r \in 1..10 /\ t \in 1..10

\* a pair whose scores differ, the vision's being held at 10 by the clamp
C4_Witness ==
    /\ tool = "calculateStructuralTension" /\ pc = "returned"
    /\ analyzeVisionQuality(args.vision) = 10
    /\ result.value.tension = 8

(***************************************************************************)
(* Properties of the bias classifier.                                      *)
(***************************************************************************)
Classified == tool = "detectReactivePatterns" /\ pc = "returned"

\* The number of words of a list that occur in the lower-cased text
MatchCount(words, text) ==
    Cardinality({i \in 1..Len(words) : includes(toLowerCase(text), words[i])})

\* C5: in every BiasAnalysis, hasBias is false exactly when detectedPatterns
\* is empty, and exactly when biasType is none.
C5_HasBiasIffPatterns ==
    Classified =>
        /\ (result.value.hasBias = FALSE) <=> (result.value.detectedPatterns = << >>)
        /\ (result.value.hasBias = FALSE) <=> (result.value.biasType = "none")

\* a text with no trigger
C5_Witness ==
    /\ Classified
    /\ args.text = "a thriving garden"
    /\ result.value.hasBias = FALSE

\* C6 as claimed: the type follows the priority chain, and each of the four
\* types is the result for some text.
C6_AsClaimed ==
    Classified =>
        /\ result.value.hasBias =>
               result.value.biasType =
                   IF MatchCount(problemSolvingWords, args.text) > 0 THEN "problem-solving"
                   ELSE IF MatchCount(gapFillingWords, args.text) > 0 THEN "gap-filling"
                   ELSE IF MatchCount(<<"improve", "enhance">>, args.text) > 0 THEN "enhancement"
                   ELSE "reactive"
        /\ \A type \in {"problem-solving", "gap-filling", "enhancement", "reactive"} :
               \E text \in BiasTexts : detectReactivePatterns(text).biasType = type

\* C7 as claimed, read for texts whose only problem-solving triggers are
\* "improve" and "enhance": a text with "improve" and a gap-filling word is
\* gap-filling.
C7_AsClaimed ==
    (Classified /\ includes(toLowerCase(args.text), "improve")
        /\ MatchCount(gapFillingWords, args.text) > 0
        /\ \A i \in 1..Len(problemSolvingWords) :
               includes(toLowerCase(args.text), problemSolvingWords[i]) =>
                   problemSolvingWords[i] \in {"improve", "enhance"}) =>
        result.value.biasType = "gap-filling"

\* C8: 4 or more problem-solving terms give high, 2 or 3 medium, 1 low,
\* whatever else matches; a text that matches nothing is none with low.
C8_ProblemSeverity ==
    Classified =>
        LET n == MatchCount(problemSolvingWords, args.text)
            others == MatchCount(gapFillingWords, args.text)
                          + MatchCount(reactiveStructures, args.text)
        IN  /\ n >= 1 => result.value.biasType = "problem-solving"
            /\ n >= 4 => result.value.severity = "high"
            /\ n \in {2, 3} => result.value.severity = "medium"
            /\ n = 1 => result.value.severity = "low"
            /\ (n = 0 /\ others = 0) =>
                   result.value.biasType = "none" /\ result.value.severity = "low"

\* exactly four problem-solving terms, beside a gap-filling one ("void")
C8_Witness ==
    /\ Classified
    /\ MatchCount(problemSolvingWords, args.text) = 4
    /\ MatchCount(gapFillingWords, args.text) > 0
    /\ result.value.severity = "high"

\* C9 as claimed: whatever the type, the severity is that of the number of
\* matches in the selected category.
C9_AsClaimed ==
    (Classified /\ result.value.hasBias) =>
        LET selected ==
                CASE result.value.biasType = "problem-solving" ->
                       MatchCount(problemSolvingWords, args.text)
                  [] result.value.biasType = "gap-filling" ->
                       MatchCount(gapFillingWords, args.text)
                  [] result.value.biasType = "enhancement" ->
                       MatchCount(<<"improve", "enhance">>, args.text)
                  [] OTHER -> MatchCount(reactiveStructures, args.text)
        IN  result.value.severity =
                (IF selected > 3 THEN "high" ELSE IF selected > 1 THEN "medium" ELSE "low")

(***************************************************************************)
(* Properties of the chart validator.                                      *)
(***************************************************************************)
Validated == tool = "validateChartElements" /\ pc = "returned"

C10_OutcomeRule ==
    \E w \in {"fix", "solve", "eliminate", "prevent", "stop", "avoid", "reduce"} :
        includes(toLowerCase(args.desiredOutcome), w)
C10_RealityRule ==
    \E w \in {"need to", "should", "must", "will", "plan to", "going to"} :
        includes(toLowerCase(args.currentReality), w)
C10_FormatRule == NewDate(args.dueDate).nan
C10_PastRule == ~NewDate(args.dueDate).nan /\ NewDate(args.dueDate).time < clock

\* C10: the validator returns the message of the first violated rule in the
\* order outcome wording, reality wording, unparsable date, past date, whatever
\* later rules are violated too, and null when none is.
C10_FirstViolation ==
    Validated =>
        result.value.kind =
            IF C10_OutcomeRule THEN "outcomeIssue"
            ELSE IF C10_RealityRule THEN "realityIssue"
            ELSE IF C10_FormatRule THEN "dueDateFormat"
            ELSE IF C10_PastRule THEN "dueDatePast"
            ELSE "null"

\* outcome "Fix", reality "I Should" and an unparsable date: rule 1 answers
C10_Witness ==
    /\ Validated
    /\ args.desiredOutcome = "Fix"
    /\ args.currentReality = "I Should"
    /\ args.dueDate = "someday"
    /\ result.value.kind = "outcomeIssue"

(***************************************************************************)
(* Properties of the quality scorer.                                       *)
(***************************************************************************)
Scored == tool = "calculateStructuralTension" /\ pc = "returned"
Bonus(condition) == IF condition THEN 1 ELSE 0
HasAny(words, text) == \E i \in 1..Len(words) : includes(toLowerCase(text), words[i])

\* The vision score as the specification states it: every containment check is
\* made on the lower-cased text
C17_Score(vision) ==
    LET lower == toLowerCase(vision)
        raw == 5 + Bonus(Len(vision) > 50)
                 + Bonus(includes(lower, "create") \/ includes(lower, "build")
                         \/ includes(lower, "achieve"))
                 + 2 * Bonus(~includes(lower, "problem") /\ ~includes(lower, "fix"))
                 + 2 * Bonus(HasAny(creativeWords, vision))
                 - 3 * Bonus(HasAny(visionProblemWords, vision))
    IN  IF raw < 1 THEN 1 ELSE IF raw > 10 THEN 10 ELSE raw

\* C17 as claimed: the vision score is clamp(5 + [length > 50] + [contains
\* create, build or achieve] + 2*[contains neither problem nor fix] +
\* 2*[creative word] - 3*[problem-vocabulary word], 1, 10), every containment
\* check being case-insensitive.
C17_AsClaimed ==
    Scored => analyzeVisionQuality(args.vision) = C17_Score(args.vision)

\* C18: the reality score is clamp(5 + [length > 30] + [length > 100] +
\* [objective word] - 2*[judgment word] - [future-tense-action phrase], 1, 10):
\* the two length bonuses add up and each word list counts at most once.
C18_RealityScore ==
    Scored =>
        LET reality == args.currentReality
            raw == 5 + Bonus(Len(reality) > 30) + Bonus(Len(reality) > 100)
                     + Bonus(HasAny(objectiveWords, reality))
                     - 2 * Bonus(HasAny(judgmentWords, reality))
                     - Bonus(HasAny(realityActionWords, reality))
            claimed == IF raw < 1 THEN 1 ELSE IF raw > 10 THEN 10 ELSE raw
        IN  /\ analyzeRealityQuality(reality) = claimed
            /\ result.value.tension <= claimed

\* a reality of 104 characters with two objective words: 5 + 1 + 1 + 1
C18_Witness ==
    /\ Scored
    /\ args.currentReality =
         "We currently have an empty lot and no funding the site measures forty by sixty metres beside the old mill"
    /\ args.vision = "Establish a thriving community garden"
    /\ analyzeRealityQuality(args.currentReality) = 8
    /\ result.value.tension = 8

\* C19: the narrative tier is chosen in this order: tension >= 8 excellent;
\* 6 <= tension < 8 good; otherwise vision < reality vision-needs-work;
\* otherwise reality < vision reality-needs-work; otherwise both-need-refinement;
\* so every score pair gets exactly one tier.
C19_TierOrder ==
    Scored =>
        LET v == analyzeVisionQuality(args.vision)
            r == analyzeRealityQuality(args.currentReality)
            t == result.value.tension
            e == result.value.energy
        IN  /\ e \in {"excellent", "good", "visionNeedsWork", "realityNeedsWork",
                      "bothNeedRefinement"}
            /\ (e = "excellent") <=> (t >= 8)
            /\ (e = "good") <=> (6 <= t /\ t < 8)
            /\ (e = "visionNeedsWork") <=> (t < 6 /\ v < r)
            /\ (e = "realityNeedsWork") <=> (t < 6 /\ r < v)
            /\ (e = "bothNeedRefinement") <=> (t < 6 /\ v = r)

\* equal scores below 6: the last tier
C19_Witness ==
    /\ Scored
    /\ analyzeVisionQuality(args.vision) = 4
    /\ analyzeRealityQuality(args.currentReality) = 4
    /\ result.value.energy = "bothNeedRefinement"

(***************************************************************************)
(* Order of the matched terms of the bias classifier.                      *)
(***************************************************************************)
\* The three dictionaries laid end to end
C20_Dictionary == problemSolvingWords \o gapFillingWords \o reactiveStructures

\* C20: detectedPatterns is the problem-solving matches, then the gap-filling
\* matches, then the structural matches, each group in dictionary order (not
\* in the order of occurrence in the text); a trigger matches as a
\* case-insensitive substring, inside a longer word too.
C20_DictionaryOrder ==
    Classified =>
        LET lower == toLowerCase(args.text)
        IN  result.value.detectedPatterns =
                SelectSeq(C20_Dictionary, LAMBDA w : includes(lower, w))

\* "must" occurs before "fill" (inside "fulfill"), and both before "resolve"
\* and "issue"; the report follows the dictionaries instead
C20_Witness ==
    /\ Classified
    /\ args.text = "must fulfill resolve issues"
    /\ result.value.detectedPatterns = <<"issue", "solve", "resolve", "fill", "must">>

(***************************************************************************)
(* Properties of a request to any of the three tools.                      *)
(***************************************************************************)
ChartRequest == tool = "create-tension-chart"
Kinds == [i \in 1..Len(result.value) |-> result.value[i].kind]
Position(component) == CHOOSE i \in 1..Len(trace) : trace[i] = component
Before(first, second) ==
    Invoked(first) /\ Invoked(second) /\ Position(first) < Position(second)

C11_RuleViolated == C10_OutcomeRule \/ C10_RealityRule \/ C10_FormatRule \/ C10_PastRule

\* a chart request past its start whose two texts are not blank
C11_Case ==
    /\ ChartRequest /\ pc # "start"
    /\ ~C2_Blank(Some(args.desiredOutcome))
    /\ ~C2_Blank(Some(args.currentReality))

C11_Outcome ==
    C11_Case =>
        IF C11_RuleViolated
        THEN /\ pc = "returned" /\ result.status = "ok"
             /\ Len(result.value) = 1
             /\ result.value[1].kind \in
                    {"outcomeIssue", "realityIssue", "dueDateFormat", "dueDatePast"}
             /\ chart = NoChart
             /\ ~Invoked("generateChartId") /\ ~Invoked("generate")
        ELSE /\ chart # NoChart
             /\ chart.desiredOutcome = args.desiredOutcome
             /\ chart.currentReality = args.currentReality
             /\ chart.dueDate = args.dueDate
             /\ chart.actionSteps =
                    (IF args.actionSteps = Undefined THEN << >> ELSE args.actionSteps[1])
             /\ Before("generateChartId", "generate")
             /\ prompt.chartPrompt.chart = chart

\* C11: a chart request with non-empty desiredOutcome and currentReality goes
\* one of two ways.  If a validator rule is violated, the violation message is
\* the normal result, no TensionChart is constructed, no id is generated and
\* generate is never called.  Otherwise a TensionChart whose desiredOutcome,
\* currentReality, dueDate and actionSteps are the request's is constructed
\* before generate is called, and no later step modifies it.
C11_ViolationOrChart ==
    /\ []C11_Outcome
    /\ [][chart # NoChart => chart' = chart]_vars

\* the second way, run to its end: the chart of a request with two action steps
C11_Witness ==
    /\ ChartRequest /\ pc = "returned"
    /\ args.desiredOutcome = "Establish clear practices"
    /\ args.actionSteps # Undefined
    /\ chart # NoChart
    /\ Len(chart.actionSteps) = 2
    /\ Len(result.value) = 3

GenerateCalls == Cardinality({i \in 1..Len(trace) : trace[i] = "generate"})

\* C12: every request (create, chart creation, bias analysis) calls generate
\* at most once; when the call fails the request fails with the call's error,
\* the call is not repeated and nothing is returned, neither a tension block
\* nor a chart summary.
C12_GenerateAtMostOnce ==
    /\ GenerateCalls <= 1
    /\ (pc = "thrown" /\ Invoked("generate")) =>
           /\ result = [status |-> "error", error |-> "executeGeminiCLI failed"]
           /\ GenerateCalls = 1
           /\ ~Invoked("scorer")

\* a failed assimilation request, which would have carried a tension block
C12_Witness ==
    /\ tool = "create" /\ pc = "thrown"
    /\ args.creativePhase = "assimilation"
    /\ Invoked("generate")
    /\ result.error = "executeGeminiCLI failed"

C13_Analyses == {"scorer", "classifier"}

\* C13 as claimed: in every request that calls generate, every classification,
\* quality scoring and tension calculation of the request is finished before
\* the call is issued, so that a failed call leaves the tension output
\* computed: an assimilation request of the create tool that has called
\* generate has run the scorer, and no analysis runs after the call.
C13_AsClaimed ==
    Invoked("generate") =>
        /\ \A i \in 1..Len(trace) :
               trace[i] \in C13_Analyses => i < Position("generate")
        /\ (tool = "create" /\ args.creativePhase = "assimilation") => Invoked("scorer")
        /\ tool = "bias-detector" => Invoked("classifier")

\* The four ways a request may end
C14_RedirectOrViolation ==
    /\ pc = "returned" /\ result.status = "ok"
    /\ ~Invoked("generate")
    /\ Kinds \in {<<"redirect">>, <<"outcomeIssue">>, <<"realityIssue">>,
                  <<"dueDateFormat">>, <<"dueDatePast">>}
C14_ValidationError ==
    /\ pc = "thrown" /\ result.status = "error"
    /\ ~Invoked("generate")
    /\ result.error # "executeGeminiCLI failed"
C14_CollaboratorError ==
    /\ pc = "thrown" /\ result.status = "error"
    /\ Invoked("generate")
    /\ result.error = "executeGeminiCLI failed"
C14_CompleteArtifact ==
    /\ pc = "returned" /\ result.status = "ok"
    /\ CASE tool = "create" ->
              /\ Invoked("generate")
              /\ Kinds = IF args.creativePhase = "assimilation"
                         THEN <<"generated", "tensionBlock">> ELSE <<"generated">>
         [] tool = "create-tension-chart" ->
              /\ Invoked("generate")
              /\ Kinds = <<"generated", "memoryNote", "chartSummary">>
         [] tool = "bias-detector" ->
              IF Invoked("generate")
              THEN Kinds = <<"biasReport", "autoCorrection">>
              ELSE Kinds \in {<<"cleanReport">>, <<"biasReport">>}
         [] OTHER -> FALSE
C14_Ways ==
    Cardinality({w \in 1..4 :
        CASE w = 1 -> C14_RedirectOrViolation
          [] w = 2 -> C14_ValidationError
          [] w = 3 -> C14_CollaboratorError
          [] w = 4 -> C14_CompleteArtifact})

\* C14: every request, given that its generate call settles, eventually ends,
\* and ends in exactly one of four ways: a complete redirect or violation
\* artifact, a thrown validation error, the collaborator's error, or a
\* complete artifact; a partial artifact is never returned.
C14_Terminates ==
    /\ <>[]Finished
    /\ [](Finished => C14_Ways = 1)

\* a bias request with autoCorrect, ended with the report and the correction
C14_Witness ==
    /\ tool = "bias-detector" /\ pc = "returned"
    /\ args.autoCorrect
    /\ Invoked("generate")
    /\ Kinds = <<"biasReport", "autoCorrection">>

(***************************************************************************)
(* Properties of a server with several requests in progress.               *)
(***************************************************************************)
\* The end of a request run with no other request: the same arguments, the
\* same clock and random readings, and executeGeminiCLI settling the same way
Alone(request) ==
    LET first == executeTool(request.tool, request.args, request.readings)
    IN  IF first.pc # "awaitGenerate" THEN first
        ELSE IF request.settled.kind = "rejected"
        THEN WithChart(Thrown("executeGeminiCLI failed", first.trace), first.chart)
        ELSE resumeTool(request.tool,
                        [args |-> request.args, trace |-> first.trace,
                         prompt |-> first.prompt, chart |-> first.chart],
                        request.settled.response)

C16_AsClaimed ==
    \A i, j \in 1..Len(requests) :
        (i # j /\ requests[i].chart # NoChart /\ requests[j].chart # NoChart) =>
            requests[i].chart.id # requests[j].chart.id

(***************************************************************************)
(* Scenarios and implied properties of the create tool.                    *)
(***************************************************************************)
C21_ScenarioB ==
    /\ tool = "create"
    /\ args = [desiredOutcome |-> "Establish a thriving community garden",
               currentReality |-> Some("We currently have an empty lot and no funding"),
               creativePhase |-> "assimilation"]

\* C21: the create request of scenario B (desiredOutcome "Establish a thriving
\* community garden", currentReality "We currently have an empty lot and no
\* funding", phase assimilation) passes the gate and the phase check, calls
\* generate once and, generate returning, returns the phase result followed by
\* the block of a StructuralTension whose tension is at least 6.
C21_ScenarioBSucceeds ==
    (C21_ScenarioB /\ pc # "start") =>
        /\ Before("gate", "phaseSwitch") /\ Before("phaseSwitch", "generate")
        /\ GenerateCalls = 1
        /\ prompt.kind = "assimilationPrompt"
        /\ pc \in {"awaitGenerate", "returned", "thrown"}
        /\ pc = "thrown" => result.error = "executeGeminiCLI failed"
        /\ pc = "returned" =>
               /\ Kinds = <<"generated", "tensionBlock">>
               /\ result.value[1].text \in Responses
               /\ calculateStructuralTension(args.desiredOutcome,
                                             args.currentReality[1]).tension >= 6
               /\ result.value[2].energy \in {"good", "excellent"}

\* scenario B returned: vision 9, reality 7, the tier of a tension of 7
C21_Witness ==
    /\ C21_ScenarioB /\ pc = "returned"
    /\ analyzeVisionQuality(args.desiredOutcome) = 9
    /\ analyzeRealityQuality(args.currentReality[1]) = 7
    /\ result.value[2].energy = "good"

(***************************************************************************)
(* The gate's words against the classifier's problem-solving words.        *)
(***************************************************************************)
Compared == tool = "gateAndClassifier" /\ pc = "returned"
Words(list) == {list[i] : i \in 1..Len(list)}

\* C22 as claimed: the gate's list covers the classifier's problem-solving
\* list, so every text the classifier labels problem-solving is redirected by
\* the gate.
C22_AsClaimed ==
    Compared =>
        (result.value.analysis.biasType = "problem-solving" =>
             result.value.redirect # Null)

\* The classifier's problem-solving words that are not gate words
C22_ClassifierOnly ==
    {"resolve", "address", "tackle", "reduce", "improve", "enhance", "optimize",
     "upgrade", "better"}

\* C22 (amended): the gate's list is the narrower one: the classifier's
\* problem-solving list is the gate's list and nine more words (resolve,
\* address, tackle, reduce, improve, enhance, optimize, upgrade, better); the
\* gate redirects a text exactly when it contains a gate word, so a text
\* labelled problem-solving passes the gate exactly when it contains none.
C22_GateNarrower ==
    Compared =>
        /\ Words(problemSolvingWords) \ Words(gateProblemWords) = C22_ClassifierOnly
        /\ (result.value.redirect # Null) <=> C1_HasGateWord(args.text)
        /\ (result.value.analysis.biasType = "problem-solving"
                /\ result.value.redirect = Null)
             <=> (~C1_HasGateWord(args.text)
                    /\ \E w \in C22_ClassifierOnly : includes(toLowerCase(args.text), w))

\* "Improve" is problem-solving for the classifier and passes the gate
C22_Witness ==
    /\ Compared
    /\ args.text = "Improve"
    /\ result.value.analysis.biasType = "problem-solving"
    /\ result.value.redirect = Null

\* C24: every text the gate redirects is classified hasBias = true with
\* biasType problem-solving, each gate word being one of the classifier's
\* problem-solving words: the gate never stops a text the classifier finds clean.
C24_RedirectedIsProblemSolving ==
    Compared =>
        /\ \A i \in 1..Len(gateProblemWords) :
               gateProblemWords[i] \in Words(problemSolvingWords)
        /\ result.value.redirect # Null =>
               /\ result.value.analysis.hasBias
               /\ result.value.analysis.biasType = "problem-solving"
               /\ \A i \in 1..Len(result.value.redirect.detectedWords) :
                      \E j \in 1..Len(result.value.analysis.detectedPatterns) :
                          result.value.analysis.detectedPatterns[j]
                              = result.value.redirect.detectedWords[i]

\* a text with gap-filling words and one gate word
C24_Witness ==
    /\ Compared
    /\ args.text = "bridge the gap avoid"
    /\ result.value.redirect.detectedWords = <<"avoid">>
    /\ result.value.analysis.biasType = "problem-solving"

(***************************************************************************)
(* Properties of a bias-analysis request.                                  *)
(***************************************************************************)
BiasRequest == tool = "bias-detector"
C23_Report == buildBiasAnalysisPrompt(args.text, detectReactivePatterns(args.text))

\* C23: for a bias-analysis request with non-empty text: when autoCorrect is
\* false or the classifier finds no bias, the analysis report is returned and
\* generate is never called; when autoCorrect is true and bias is found,
\* generate is called exactly once, after the classification, and the result
\* is the same report followed by the correction text.
C23_AutoCorrect ==
    (BiasRequest /\ pc # "start" /\ ~C2_Blank(Some(args.text))) =>
        IF ~args.autoCorrect \/ ~detectReactivePatterns(args.text).hasBias
        THEN /\ pc = "returned"
             /\ result = [status |-> "ok", value |-> <<C23_Report>>]
             /\ ~Invoked("generate")
        ELSE /\ GenerateCalls = 1
             /\ Before("classifier", "generate")
             /\ pc = "returned" =>
                    /\ Len(result.value) = 2
                    /\ result.value[1] = C23_Report
                    /\ result.value[2].kind = "autoCorrection"
                    /\ result.value[2].text \in Responses
             /\ pc = "thrown" => result.error = "executeGeminiCLI failed"

\* a biased text with autoCorrect: the report, then the correction
C23_Witness ==
    /\ BiasRequest /\ pc = "returned"
    /\ args.text = "must fulfill"
    /\ args.autoCorrect
    /\ result.value[1].biasType = "gap-filling"
    /\ result.value[2].text = "generated text"

C26_ScoreRanges ==
    Scored =>
        LET v == analyzeVisionQuality(args.vision)
            r == analyzeRealityQuality(args.currentReality)
        IN  /\ r \in 2..8
            /\ v \in 2..10
            /\ result.value.tension \in 2..8
            /\ result.value.energy = "excellent" =>
                   /\ r = 8
                   /\ Len(args.currentReality) > 100
                   /\ HasAny(objectiveWords, args.currentReality)
                   /\ ~HasAny(judgmentWords, args.currentReality)
                   /\ ~HasAny(realityActionWords, args.currentReality)

\* the lowest scores: vision 2 and reality 2
C26_Witness ==
    /\ Scored
    /\ args.vision = "fix the PROBLEM"
    /\ args.currentReality = "it is bad I will"
    /\ analyzeVisionQuality(args.vision) = 2
    /\ analyzeRealityQuality(args.currentReality) = 2
    /\ result.value.tension = 2

\* C27: the vision of a tension block returned by the create tool scores at
\* least 7, since it passed the gate; the vision-needs-work tier and the
\* both-need-refinement tier never appear in the output of the create tool.
C27_BlockVisionAtLeast7 ==
    (tool = "create" /\ pc = "returned" /\ Len(result.value) = 2) =>
        /\ analyzeVisionQuality(args.desiredOutcome) >= 7
        /\ ~includes(toLowerCase(args.desiredOutcome), "problem")
        /\ ~includes(toLowerCase(args.desiredOutcome), "fix")
        /\ ~HasAny(visionProblemWords, args.desiredOutcome)
        /\ result.value[2].energy \notin {"visionNeedsWork", "bothNeedRefinement"}

\* a block for a vision without any bonus but the one for avoiding "problem" and "fix"
C27_Witness ==
    /\ tool = "create" /\ pc = "returned"
    /\ args.desiredOutcome = "A garden"
    /\ Len(result.value) = 2
    /\ analyzeVisionQuality(args.desiredOutcome) = 7
    /\ result.value[2].energy = "good"

\* C28: the outcomes of a create request have a fixed precedence: the
\* empty-desiredOutcome error, then the gate redirect, then the
\* missing-currentReality error, then the generate call; an assimilation or
\* completion request without currentReality and with a gate word gets the
\* redirect as a normal result.
C28_Precedence ==
    (tool = "create" /\ pc # "start") =>
        IF C2_Blank(Some(args.desiredOutcome))
        THEN /\ pc = "thrown"
             /\ result.error = "What specific outcome do you want to create?"
             /\ trace = << >>
        ELSE IF C1_HasGateWord(args.desiredOutcome)
        THEN /\ pc = "returned" /\ Kinds = <<"redirect">>
             /\ trace = <<"gate">>
        ELSE IF args.creativePhase \in {"assimilation", "completion"}
                    /\ C2_Blank(args.currentReality)
        THEN /\ pc = "thrown"
             /\ result.error \in
                    {"Assimilation phase requires both your vision AND current reality",
                     "Completion phase requires understanding where you are now"}
             /\ trace = <<"gate", "phaseSwitch">>
        ELSE /\ Invoked("generate")
             /\ pc \in {"awaitGenerate", "returned", "thrown"}
             /\ pc = "thrown" => result.error = "executeGeminiCLI failed"

\* a completion request with a gate word and a blank currentReality
C28_Witness ==
    /\ tool = "create" /\ pc = "returned"
    /\ args.creativePhase = "completion"
    /\ args.currentReality = Some(" ")
    /\ args.desiredOutcome = "fix the PROBLEM"
    /\ Kinds = <<"redirect">>

(***************************************************************************)
(* Properties of a structural-observe request.                             *)
(***************************************************************************)
ObserveRequest == tool = "structural-observe" /\ ~C2_Blank(Some(args.input))
C30_Step == IF args.step = Undefined THEN "nothing" ELSE args.step[1]
C30_Names(step) == includes(result.value[2].text, "step='" \o step \o "'")
C30_Chain == <<"nothing", "picture", "questions", "complete">>

\* C30: of the steps of structural-observe only the questions step is gated on
\* a prior artifact: with an empty or absent currentImage it fails before
\* generate is called; the steps nothing, picture and complete call generate
\* exactly once whether or not currentImage is supplied; the guidance appended
\* to a result names the step that follows in the chain nothing, picture,
\* questions, complete (after complete, the last, it names no step).
C30_OnlyQuestionsGated ==
    (ObserveRequest /\ pc # "start" /\ C30_Step \in {"nothing", "picture", "questions", "complete"}) =>
        /\ (C30_Step = "questions" /\ C2_Blank(args.currentImage)) =>
               /\ pc = "thrown"
               /\ result.error = "Questions step requires your current mental picture to generate internally-motivated questions."
               /\ ~Invoked("generate")
        /\ (C30_Step # "questions" \/ ~C2_Blank(args.currentImage)) =>
               /\ GenerateCalls = 1
               /\ pc \in {"awaitGenerate", "returned", "thrown"}
               /\ pc = "thrown" => result.error = "executeGeminiCLI failed"
        /\ pc = "returned" =>
               /\ Kinds = <<"generated", "nextStep">>
               /\ result.value[1].text \in Responses
               /\ \A i \in 1..4 : C30_Step = C30_Chain[i] =>
                      \A j \in 1..4 : C30_Names(C30_Chain[j]) <=> j = i + 1

\* the picture step returned for a request without currentImage
C30_Witness ==
    /\ ObserveRequest /\ pc = "returned"
    /\ args.step = Some("picture")
    /\ args.currentImage = Undefined
    /\ GenerateCalls = 1
    /\ C30_Names("questions")

====
